---- MODULE Spec2Model ----
(***************************************************************************)
(* TaskHub backend (backend/main.go): a gin HTTP service over one SQLite   *)
(* table "tasks".  The model follows the process from main() through       *)
(* loadConfig and initDatabase into serving, and the six route handlers    *)
(* plus the CORS middleware.  Every SQL statement is one atomic step of    *)
(* the storage engine; createTask and updateTask issue two statements and  *)
(* may therefore interleave with other requests between them.              *)
(***************************************************************************)
EXTENDS Integers, Sequences, FiniteSets, Bags, TLC

(* ---------------- bounds of the model ---------------- *)

\* Largest id a Create is given before further Creates are no longer explored.
MaxSeq == 4

\* Number of times the process is started on the same database file.
MaxBoots == 2

\* Largest value of the storage engine's wall clock (CURRENT_TIMESTAMP, in seconds).
MaxClock == 1

\* Request goroutines that may be between two statements at the same time.
Slots == {1, 2}

\* Path ids concurrent requests are addressed to: a seed row and the first id
\* a Create is given (an id never assigned, until then).
PathIds == {1, 4}

\* Path ids of the Get and Delete requests that may empty the table: these
\* and the other seed rows of the first start.
AllPathIds == {1, 2, 3, 4}

(* ---------------- values ---------------- *)

\* A string that holds no time: the zero value of Task.CreatedAt.
EmptyText == [layout |-> "", sec |-> 0]

\* database/sql hands a DATETIME column to a *string as the parsed time
\* formatted with time.RFC3339Nano.
ScanCreatedAt(sec) == [layout |-> "RFC3339Nano", sec |-> sec]

\* The zero value of the Go struct Task.
ZeroTask ==
  [id |-> 0, title |-> "", description |-> "", status |-> "", created_at |-> EmptyText]

\* Request bodies.  "has" names the JSON keys present in the object; a body
\* that is not a JSON object of the expected shape is not wellformed.
Body(wf, has, id, title, description, status, created_at) ==
  [wellformed |-> wf, has |-> has, id |-> id, title |-> title,
   description |-> description, status |-> status, created_at |-> created_at]

BodyMalformed == Body(FALSE, {}, 0, "", "", "", EmptyText)
BodyEmpty == Body(TRUE, {}, 0, "", "", "", EmptyText)
BodyFull ==
  Body(TRUE, {"title", "description", "status"}, 0,
       "Write spec", "first draft", "completed", EmptyText)
BodyForged ==
  Body(TRUE, {"id", "title", "status", "created_at"}, 1,
       "Review", "", "", [layout |-> "client", sec |-> 9])

Bodies == {BodyMalformed, BodyEmpty, BodyFull, BodyForged}

\* The bodies Update requests are sent with.
UpdateBodies == {BodyMalformed, BodyFull, BodyForged}

\* Bodies of Create requests that name a title only, an empty title, or
\* nothing: {"title":"Write spec"}, {"title":""}, {} and an unparseable one.
BodyTitle == Body(TRUE, {"title"}, 0, "Write spec", "", "", EmptyText)
BodyBlankTitle == Body(TRUE, {"title"}, 0, "", "", "", EmptyText)

CreateBodies == {BodyMalformed, BodyEmpty, BodyTitle, BodyBlankTitle}

\* Bodies of Update requests that leave fields out: {}, a title only, and
\* one with an empty status and no description.
SparseUpdateBodies == {BodyEmpty, BodyTitle, BodyForged}

\* A bind of a Task whose title is tagged binding:"required".
BindOkTitleRequired(body) ==
  body.wellformed /\ "title" \in body.has /\ body.title # ""

\* A bind whose error is not looked at.
BindOkAlways(body) == TRUE

\* c.ShouldBindJSON(&task): keys present in the body overwrite the zero
\* Task, absent keys leave the zero value; err # nil when the body does not parse.
BindOk(body) == body.wellformed

ShouldBindJSON(body) ==
  [id |-> IF "id" \in body.has THEN body.id ELSE ZeroTask.id,
   title |-> IF "title" \in body.has THEN body.title ELSE ZeroTask.title,
   description |->
     IF "description" \in body.has THEN body.description ELSE ZeroTask.description,
   status |-> IF "status" \in body.has THEN body.status ELSE ZeroTask.status,
   created_at |->
     IF "created_at" \in body.has THEN body.created_at ELSE ZeroTask.created_at]

\* Settings documents loadConfig may read (app.version, security.cors_origins).
ConfigDocs ==
  { [version |-> "1.0.0", cors_origins |-> <<"http://localhost:3000">>] }

\* Settings documents that differ in app.version and in the configured
\* origin list (one origin, none, several).
WideConfigDocs ==
  ConfigDocs \cup
  { [version |-> "2.3.1", cors_origins |-> <<>>],
    [version |-> "0.9.0-rc1",
     cors_origins |-> <<"https://app.example.com", "https://admin.example.com">>] }

ZeroConfig == [version |-> "", cors_origins |-> <<>>]

\* The three rows of insertSampleData, in statement order.
SeedRows ==
  << [title |-> "Setup Development Environment",
      description |-> "Install and configure development tools",
      status |-> "completed"],
     [title |-> "Create API Documentation",
      description |-> "Document all API endpoints and responses",
      status |-> "in_progress"],
     [title |-> "Deploy to Production",
      description |-> "Deploy application to production environment",
      status |-> "pending"] >>

(* ---------------- JSON response bodies ---------------- *)

TaskJSON(task) == [kind |-> "task", task |-> task]
ErrorJSON(msg) == [kind |-> "error", error |-> msg]
MessageJSON(msg) == [kind |-> "message", message |-> msg]
EmptyBody == [kind |-> "empty"]

\* encoding/json writes a nil slice as null and a non-nil slice as an array.
TasksJSON(tasks) ==
  IF tasks = <<>> THEN [kind |-> "null"] ELSE [kind |-> "array", items |-> tasks]

\* A Health body with the version written into the handler.
HealthJSONFixedVersion(version) ==
  [kind |-> "health", status |-> "healthy", version |-> "1.0.0",
   timestamp |-> "%!d(<nil>)"]

\* fmt.Sprintf("%d", nil): the request context carries no "timestamp" value.
HealthJSON(version) ==
  [kind |-> "health", status |-> "healthy", version |-> version,
   timestamp |-> "%!d(<nil>)"]

StorageError == "storage error"
ErrNoRows == "sql: no rows in result set"
ParseError == "parse error"

(* ---------------- state ---------------- *)

VARIABLES
  mainpc,      \* position of main(): "start", "loaded", "serving", "exited"
  boots,       \* how many times the process has been started on this database
  config,      \* the global config
  tableExists, \* whether the tasks table has been created in the database file
  table,       \* the rows of tasks: id -> [title, description, status, created_at]
  seq,         \* sqlite_sequence entry of tasks: the largest id ever assigned
  clock,       \* the latest CURRENT_TIMESTAMP the storage engine has handed out
  inflight,    \* bag of the handlers that are between their two statements
  lastResp,    \* the response this process has written last, with its request
  issued,      \* history: the ids assigned by the table, in assignment order
  deleted,     \* history: the ids for which a Delete has returned 200
  created      \* history: id -> created_at of the 201 response that returned it

vars ==
  << mainpc, boots, config, tableExists, table, seq, clock, inflight, lastResp,
     issued, deleted, created >>

dbvars == << tableExists, table, seq >>
histvars == << issued, deleted, created >>

\* A handler that takes the id of its Task from the body when the body has one.
HandlerBodyId(hpc, id, task, req) ==
  [pc |-> hpc,
   id |-> IF "id" \in req.has THEN req.id ELSE id,
   task |-> [task EXCEPT !.id = IF "id" \in req.has THEN req.id ELSE @],
   req |-> req]

\* A handler between its two statements: pc is "create_select" or
\* "update_select", id the path id, task the handler's Task; req (the body as
\* received) is history.
Handler(hpc, id, task, req) ==
  [pc |-> hpc, id |-> id, task |-> task, req |-> req]

\* A middleware that answers with the first configured origin.
AllowOriginConfigured ==
  IF config.cors_origins = <<>> THEN "" ELSE config.cors_origins[1]

\* corsMiddleware sets Access-Control-Allow-Origin on every response.
AllowOrigin == "*"

NoResp ==
  [op |-> "none", id |-> 0, req |-> BodyEmpty, status |-> 0, body |-> EmptyBody,
   allow_origin |-> "", fault |-> FALSE]

\* A response as the client sees it (status, body, CORS header), with the
\* request it answers (op, path id, body) and the history flag fault (a
\* storage statement of this request failed in the engine).
Resp(op, id, req, status, body, fault) ==
  [op |-> op, id |-> id, req |-> req, status |-> status, body |-> body,
   allow_origin |-> AllowOrigin, fault |-> fault]

\* The 500 a handler answers when the storage engine fails one of its
\* statements; what the request was is not recorded for it.
FaultResp(op) ==
  Resp(op, 0, BodyEmpty, 500, ErrorJSON(StorageError), TRUE)

(* ---------------- storage engine ---------------- *)

Max2(a, b) == IF a >= b THEN a ELSE b

RECURSIVE MaxOf(_)
MaxOf(S) ==
  IF S = {} THEN 0
  ELSE LET x == CHOOSE y \in S : TRUE IN Max2(x, MaxOf(S \ {x}))

\* A plain INTEGER PRIMARY KEY (no AUTOINCREMENT): one more than the largest
\* id the table holds now, so the id of a deleted last row is handed out again.
NextIdRowid(tbl, sq) == MaxOf(DOMAIN tbl) + 1

\* INTEGER PRIMARY KEY AUTOINCREMENT: one more than the largest id the table
\* has ever held (sqlite_sequence), also after that row was deleted.
NextId(tbl, sq) == Max2(sq, MaxOf(DOMAIN tbl)) + 1

\* INSERT OR IGNORE skips a row only when it violates a uniqueness
\* constraint; the table's one such constraint is the primary key id.
Ignored(tbl, id) == id \in DOMAIN tbl

\* SQL NULL in a TEXT column, as distinct from every text: no request body
\* and no statement of the program carries this value.
Null == "<NULL>"

\* An INSERT that binds an empty description as SQL NULL (sql.NullString).
NewRowNullDescription(title, description, status, now) ==
  [title |-> title,
   description |-> IF description = "" THEN Null ELSE description,
   status |-> status, created_at |-> now]

\* An INSERT that leaves out the status column: the column default is stored.
NewRowDefaultStatus(title, description, status, now) ==
  [title |-> title, description |-> description, status |-> "pending",
   created_at |-> now]

\* The row a Task insert writes: created_at takes DEFAULT CURRENT_TIMESTAMP.
NewRow(title, description, status, now) ==
  [title |-> title, description |-> description, status |-> status,
   created_at |-> now]

\* tbl with one more row.
InsertRow(tbl, id, row) ==
  [i \in DOMAIN tbl \cup {id} |-> IF i = id THEN row ELSE tbl[i]]

\* An initDatabase that inserts no sample rows.
InsertSeedsNone(tbl, sq, now, k) == [table |-> tbl, seq |-> sq, ids |-> <<>>]

\* INSERT OR IGNORE INTO tasks (title, description, status) VALUES (..),(..),(..)
RECURSIVE InsertSeeds(_, _, _, _)
InsertSeeds(tbl, sq, now, k) ==
  IF k > Len(SeedRows) THEN [table |-> tbl, seq |-> sq, ids |-> <<>>]
  ELSE LET id == NextId(tbl, sq)
           s == SeedRows[k]
       IN IF Ignored(tbl, id)
          THEN InsertSeeds(tbl, sq, now, k + 1)
          ELSE LET rest ==
                     InsertSeeds(
                       InsertRow(tbl, id, NewRow(s.title, s.description, s.status, now)),
                       id, now, k + 1)
               IN [rest EXCEPT !.ids = <<id>> \o rest.ids]

\* Scan of one row into a Task.
ScanTask(tbl, id) ==
  [id |-> id, title |-> tbl[id].title, description |-> tbl[id].description,
   status |-> tbl[id].status, created_at |-> ScanCreatedAt(tbl[id].created_at)]

\* ORDER BY id ASC: the ids, smallest first.
RECURSIVE OrderByIdAsc(_)
OrderByIdAsc(S) ==
  IF S = {} THEN <<>>
  ELSE LET m == MaxOf(S) IN OrderByIdAsc(S \ {m}) \o <<m>>

\* SELECT ... FROM tasks ORDER BY id DESC: the ids, largest first.
RECURSIVE OrderByIdDesc(_)
OrderByIdDesc(S) ==
  IF S = {} THEN <<>>
  ELSE LET m == MaxOf(S) IN <<m>> \o OrderByIdDesc(S \ {m})

\* An UPDATE that also writes the created_at bound from the body.
UpdateRowBoundCreatedAt(tbl, id, task) ==
  [tbl EXCEPT ![id] = [@ EXCEPT !.title = task.title,
                                !.description = task.description,
                                !.status = task.status,
                                !.created_at = task.created_at.sec]]

\* An UPDATE without its WHERE clause.
UpdateRowAll(tbl, id, task) ==
  [i \in DOMAIN tbl |->
     [tbl[i] EXCEPT !.title = task.title,
                    !.description = task.description,
                    !.status = task.status]]

\* An UPDATE that applies the status default of createTask.
UpdateRowDefaultStatus(tbl, id, task) ==
  [tbl EXCEPT ![id] =
     [@ EXCEPT !.title = task.title,
               !.description = task.description,
               !.status = IF task.status = "" THEN "pending" ELSE task.status]]

\* An UPDATE that keeps a column when the bound value is empty.
UpdateRowNonEmpty(tbl, id, task) ==
  [tbl EXCEPT ![id] =
     [@ EXCEPT !.title = IF task.title = "" THEN @ ELSE task.title,
               !.description = IF task.description = "" THEN @ ELSE task.description,
               !.status = IF task.status = "" THEN @ ELSE task.status]]

\* An UPDATE whose SET list leaves out description.
UpdateRowKeepDescription(tbl, id, task) ==
  [tbl EXCEPT ![id] = [@ EXCEPT !.title = task.title,
                                !.status = task.status]]

\* UPDATE tasks SET title, description, status WHERE id = ?
UpdateRow(tbl, id, task) ==
  [tbl EXCEPT ![id] = [@ EXCEPT !.title = task.title,
                                !.description = task.description,
                                !.status = task.status]]

\* A soft delete: the statement affects the row and leaves it in the table.
DeleteRowSoft(tbl, id) == tbl

\* DELETE FROM tasks WHERE id = ?
DeleteRow(tbl, id) == [i \in DOMAIN tbl \ {id} |-> tbl[i]]


(* ---------------- initial state ---------------- *)

\* The process has just been started against a fresh database file.
Init ==
  /\ mainpc = "start"
  /\ boots = 1
  /\ config = ZeroConfig
  /\ tableExists = FALSE
  /\ table = << >>
  /\ seq = 0
  /\ clock = 0
  /\ inflight = EmptyBag
  /\ lastResp = NoResp
  /\ issued = <<>>
  /\ deleted = {}
  /\ created = << >>

(* ---------------- main() ---------------- *)

\* A main() that logs the loadConfig error and goes on with the zero Config.
LoadConfigErrorIgnored(doc, ok) ==
  /\ mainpc = "start"
  /\ config' = IF ok THEN doc ELSE config
  /\ mainpc' = "loaded"
  /\ UNCHANGED << boots, dbvars, clock, inflight, lastResp, histvars >>

\* loadConfig: reads and parses the settings document; an error is fatal.
LoadConfig(doc, ok) ==
  /\ mainpc = "start"
  /\ IF ok
     THEN /\ config' = doc
          /\ mainpc' = "loaded"
     ELSE /\ config' = config
          /\ mainpc' = "exited"
  /\ UNCHANGED << boots, dbvars, clock, inflight, lastResp, histvars >>

InitFaults == {"none", "open", "create", "insert"}

\* initDatabase: sql.Open, CREATE TABLE IF NOT EXISTS, INSERT OR IGNORE of the
\* sample rows at CURRENT_TIMESTAMP = now; main() exits on an error and serves
\* otherwise.
InitDatabase(fault, now) ==
  /\ mainpc = "loaded"
  /\ now >= clock
  /\ IF fault \in {"open", "create"}
     THEN /\ mainpc' = "exited"
          /\ UNCHANGED << dbvars, clock, issued >>
     ELSE IF fault = "insert"
     THEN /\ mainpc' = "exited"
          /\ tableExists' = TRUE
          /\ UNCHANGED << table, seq, clock, issued >>
     ELSE LET r == InsertSeeds(table, seq, now, 1) IN
          /\ mainpc' = "serving"
          /\ tableExists' = TRUE
          /\ table' = r.table
          /\ seq' = r.seq
          /\ clock' = now
          /\ issued' = issued \o r.ids
  /\ UNCHANGED << boots, config, inflight, lastResp, deleted, created >>

\* The process is stopped (or has exited) and is started again on the same
\* database file; requests in flight are lost with the old process, which
\* has written its last response.
Restart ==
  /\ mainpc \in {"serving", "exited"}
  /\ boots < MaxBoots
  /\ boots' = boots + 1
  /\ mainpc' = "start"
  /\ config' = ZeroConfig
  /\ inflight' = EmptyBag
  /\ lastResp' = NoResp
  /\ UNCHANGED << dbvars, clock, histvars >>

(* ---------------- request handlers ---------------- *)

\* A goroutine is free to take a request that needs two statements.
SlotFree == BagCardinality(inflight) < Cardinality(Slots)

\* The handlers in flight at position hpc.
At(hpc) == {h \in BagToSet(inflight) : h.pc = hpc}

\* The handlers in flight once h has started / finished.
Started(h) == inflight (+) SetToBag({h})
Finished(h) == inflight (-) SetToBag({h})

\* What the engine does to the SELECT of a List: it serves it, fails
\* db.Query, fails the Scan of a row, or fails a step of rows.Next().
ListFaults == {"none", "query", "scan", "next"}

\* The Tasks of the first k rows of SELECT ... ORDER BY id DESC.
ScanRows(tbl, k) ==
  LET ids == OrderByIdDesc(DOMAIN tbl)
  IN [i \in 1..k |-> ScanTask(tbl, ids[i])]

\* getTasks: GET /tasks; k rows are appended before the loop ends.  A failed
\* Query, or a failed Scan of a row, answers 500.  A step of rows.Next() that
\* fails ends the loop like the end of the rows does: rows.Err() is not
\* read, and the k rows appended so far are answered with 200.
getTasks(fault, k) ==
  /\ mainpc = "serving"
  /\ k \in 0..Cardinality(DOMAIN table)
  /\ fault = "none" => k = Cardinality(DOMAIN table)
  /\ fault = "query" => k = 0
  /\ fault = "scan" => k < Cardinality(DOMAIN table)
  /\ lastResp' =
       IF fault \in {"query", "scan"}
       THEN FaultResp("list")
       ELSE Resp("list", 0, BodyEmpty, 200,
                 TasksJSON(ScanRows(table, k)), fault = "next")
  /\ inflight' = inflight
  /\ UNCHANGED << mainpc, boots, config, dbvars, clock, histvars >>

\* createTask without its default: the bound status is written as it is.
CreateStatusAsBound(task) == task.status

\* The status createTask writes: "pending" in place of the empty string.
CreateStatus(task) == IF task.status = "" THEN "pending" ELSE task.status

\* createTask, up to and including the INSERT (main.go 148-165), which runs
\* at CURRENT_TIMESTAMP = now.
createTaskInsert(body, fault, now) ==
  /\ mainpc = "serving"
  /\ now >= clock
  /\ IF ~BindOk(body)
     THEN /\ lastResp' = Resp("create", 0, body, 400, ErrorJSON(ParseError), FALSE)
          /\ inflight' = inflight
          /\ UNCHANGED << dbvars, clock, issued >>
     ELSE IF fault
     THEN /\ lastResp' = FaultResp("create")
          /\ inflight' = inflight
          /\ UNCHANGED << dbvars, clock, issued >>
     ELSE LET bound == ShouldBindJSON(body)
              task == [bound EXCEPT !.status = CreateStatus(bound)]
              id == NextId(table, seq)
          IN /\ SlotFree
             /\ id <= MaxSeq
             /\ table' =
                  InsertRow(table, id,
                            NewRow(task.title, task.description, task.status, now))
             /\ seq' = id
             /\ clock' = now
             /\ issued' = Append(issued, id)
             /\ inflight' =
                  Started(Handler("create_select", 0, [task EXCEPT !.id = id],
                                  body))
             /\ UNCHANGED << tableExists, lastResp >>
  /\ UNCHANGED << mainpc, boots, config, deleted, created >>

\* A createTask whose error branch after the SELECT lacks its return: the 500
\* is written and the handler goes on.
createTaskSelectNoReturn(h, fault) ==
  /\ mainpc = "serving"
  /\ h \in At("create_select")
  /\ IF fault
     THEN /\ lastResp' = FaultResp("create")
          /\ inflight' = inflight
          /\ created' = created
     ELSE LET out == [h.task EXCEPT
                        !.created_at =
                          IF h.task.id \in DOMAIN table
                          THEN ScanCreatedAt(table[h.task.id].created_at)
                          ELSE EmptyText]
          IN /\ lastResp' =
                  Resp("create", 0, h.req, 201, TaskJSON(out), FALSE)
             /\ inflight' = Finished(h)
             /\ created' =
                  [i \in DOMAIN created \cup {out.id} |->
                     IF i = out.id THEN out.created_at ELSE created[i]]
  /\ UNCHANGED << mainpc, boots, config, dbvars, clock, issued, deleted >>

\* createTask, the SELECT of created_at and the response (main.go 167-174).
createTaskSelect(h, fault) ==
  /\ mainpc = "serving"
  /\ h \in At("create_select")
  /\ IF fault
     THEN /\ lastResp' =
               FaultResp("create")
          /\ created' = created
     ELSE IF h.task.id \notin DOMAIN table
     THEN /\ lastResp' =
               Resp("create", 0, h.req, 500, ErrorJSON(ErrNoRows), FALSE)
          /\ created' = created
     ELSE LET out == [h.task EXCEPT
                        !.created_at = ScanCreatedAt(table[h.task.id].created_at)]
          IN /\ lastResp' =
                  Resp("create", 0, h.req, 201, TaskJSON(out), FALSE)
             /\ created' =
                  [i \in DOMAIN created \cup {out.id} |->
                     IF i = out.id THEN out.created_at ELSE created[i]]
  /\ inflight' = Finished(h)
  /\ UNCHANGED << mainpc, boots, config, dbvars, clock, issued, deleted >>

\* A getTask that records the read in the row it returns.
getTaskMarkViewed(id, fault) ==
  /\ mainpc = "serving"
  /\ lastResp' =
       IF fault
       THEN FaultResp("get")
       ELSE IF id \notin DOMAIN table
       THEN Resp("get", id, BodyEmpty, 404, ErrorJSON("Task not found"), FALSE)
       ELSE Resp("get", id, BodyEmpty, 200, TaskJSON(ScanTask(table, id)), FALSE)
  /\ table' =
       IF fault \/ id \notin DOMAIN table
       THEN table
       ELSE [table EXCEPT ![id].status = "viewed"]
  /\ inflight' = inflight
  /\ UNCHANGED << mainpc, boots, config, tableExists, seq, clock, histvars >>

\* A getTask that does not tell sql.ErrNoRows from other errors.
getTaskNoRowsAs500(id, fault) ==
  /\ mainpc = "serving"
  /\ lastResp' =
       IF fault
       THEN FaultResp("get")
       ELSE IF id \notin DOMAIN table
       THEN Resp("get", id, BodyEmpty, 500, ErrorJSON(ErrNoRows), FALSE)
       ELSE Resp("get", id, BodyEmpty, 200, TaskJSON(ScanTask(table, id)), FALSE)
  /\ inflight' = inflight
  /\ UNCHANGED << mainpc, boots, config, dbvars, clock, histvars >>

\* getTask: GET /tasks/:id.
getTask(id, fault) ==
  /\ mainpc = "serving"
  /\ lastResp' =
       IF fault
       THEN FaultResp("get")
       ELSE IF id \notin DOMAIN table
       THEN Resp("get", id, BodyEmpty, 404, ErrorJSON("Task not found"), FALSE)
       ELSE Resp("get", id, BodyEmpty, 200, TaskJSON(ScanTask(table, id)), FALSE)
  /\ inflight' = inflight
  /\ UNCHANGED << mainpc, boots, config, dbvars, clock, histvars >>

\* updateTask, up to and including the UPDATE and its RowsAffected test
\* (main.go 195-212).
updateTaskExec(id, body, fault) ==
  /\ mainpc = "serving"
  /\ IF ~BindOk(body)
     THEN /\ lastResp' = Resp("update", id, body, 400, ErrorJSON(ParseError), FALSE)
          /\ inflight' = inflight
          /\ UNCHANGED table
     ELSE IF fault
     THEN /\ lastResp' = FaultResp("update")
          /\ inflight' = inflight
          /\ UNCHANGED table
     ELSE IF id \notin DOMAIN table
     THEN /\ lastResp' =
               Resp("update", id, body, 404, ErrorJSON("Task not found"), FALSE)
          /\ inflight' = inflight
          /\ UNCHANGED table
     ELSE LET task == ShouldBindJSON(body)
          IN /\ SlotFree
             /\ table' = UpdateRow(table, id, task)
             /\ inflight' = Started(Handler("update_select", id, task, body))
             /\ UNCHANGED lastResp
  /\ UNCHANGED << mainpc, boots, config, tableExists, seq, clock, histvars >>

\* updateTask, the SELECT of the row and the response (main.go 214-221).
updateTaskSelect(h, fault) ==
  /\ mainpc = "serving"
  /\ h \in At("update_select")
  /\ lastResp' =
       IF fault
       THEN FaultResp("update")
       ELSE IF h.id \notin DOMAIN table
       THEN Resp("update", h.id, h.req, 500, ErrorJSON(ErrNoRows), FALSE)
       ELSE Resp("update", h.id, h.req, 200, TaskJSON(ScanTask(table, h.id)), FALSE)
  /\ inflight' = Finished(h)
  /\ UNCHANGED << mainpc, boots, config, dbvars, clock, histvars >>

\* A deleteTask that does not look at RowsAffected.
deleteTaskAlways200(id, fault) ==
  /\ mainpc = "serving"
  /\ IF fault
     THEN /\ lastResp' =
               FaultResp("delete")
          /\ UNCHANGED << table, deleted >>
     ELSE /\ table' = DeleteRow(table, id)
          /\ deleted' = deleted \cup {id}
          /\ lastResp' =
               Resp("delete", id, BodyEmpty, 200,
                    MessageJSON("Task deleted successfully"), FALSE)
  /\ inflight' = inflight
  /\ UNCHANGED << mainpc, boots, config, tableExists, seq, clock, issued, created >>

\* deleteTask: DELETE /tasks/:id.
deleteTask(id, fault) ==
  /\ mainpc = "serving"
  /\ IF fault
     THEN /\ lastResp' =
               FaultResp("delete")
          /\ UNCHANGED << table, deleted >>
     ELSE IF id \notin DOMAIN table
     THEN /\ lastResp' =
               Resp("delete", id, BodyEmpty, 404, ErrorJSON("Task not found"), FALSE)
          /\ UNCHANGED << table, deleted >>
     ELSE /\ table' = DeleteRow(table, id)
          /\ deleted' = deleted \cup {id}
          /\ lastResp' =
               Resp("delete", id, BodyEmpty, 200,
                    MessageJSON("Task deleted successfully"), FALSE)
  /\ inflight' = inflight
  /\ UNCHANGED << mainpc, boots, config, tableExists, seq, clock, issued, created >>

\* healthCheck: GET /health.
healthCheck ==
  /\ mainpc = "serving"
  /\ lastResp' = Resp("health", 0, BodyEmpty, 200, HealthJSON(config.version), FALSE)
  /\ inflight' = inflight
  /\ UNCHANGED << mainpc, boots, config, dbvars, clock, histvars >>

\* corsMiddleware on an OPTIONS request: 204, no handler runs.
corsMiddleware ==
  /\ mainpc = "serving"
  /\ lastResp' = Resp("options", 0, BodyEmpty, 204, EmptyBody, FALSE)
  /\ UNCHANGED << mainpc, boots, config, dbvars, clock, inflight, histvars >>

(* ---------------- specifications ---------------- *)

Times == 0..MaxClock

\* main(), from the start of the process to serving or exiting.
Startup ==
  \/ \E doc \in ConfigDocs, ok \in BOOLEAN : LoadConfig(doc, ok)
  \/ \E fault \in InitFaults, now \in Times : InitDatabase(fault, now)

\* A request arrives and its handler runs up to its first statement's
\* result; ids are the path ids of Get and Delete, updIds those of Update, and
\* a request is taken only when may holds.
Requests(ids, updIds, may) ==
  \/ \E fault \in ListFaults, k \in 0..Cardinality(DOMAIN table) :
        may /\ getTasks(fault, k)
  \/ \E body \in Bodies, fault \in BOOLEAN, now \in Times :
        may /\ createTaskInsert(body, fault, now)
  \/ \E id \in ids, fault \in BOOLEAN : may /\ getTask(id, fault)
  \/ \E id \in updIds, body \in UpdateBodies, fault \in BOOLEAN :
        may /\ updateTaskExec(id, body, fault)
  \/ \E id \in ids, fault \in BOOLEAN : may /\ deleteTask(id, fault)
  \/ may /\ healthCheck
  \/ may /\ corsMiddleware

\* A handler in flight runs its second statement and responds.
Completions ==
  \/ \E h \in BagToSet(inflight), fault \in BOOLEAN : createTaskSelect(h, fault)
  \/ \E h \in BagToSet(inflight), fault \in BOOLEAN : updateTaskSelect(h, fault)

\* One run of the process.  Requests are served concurrently: the statements
\* of different handlers interleave in any order.
Next == Startup \/ Requests(PathIds, PathIds, TRUE) \/ Completions

Spec == Init /\ [][Next]_vars

\* The database over several runs of the process.  Requests arrive one at a
\* time: a request is taken only when no handler is in flight.
NextSeq ==
  \/ Startup
  \/ Restart
  \/ Requests(PathIds, PathIds, inflight = EmptyBag)
  \/ Completions

SpecSeq == Init /\ [][NextSeq]_vars

\* One run of the process, requests one at a time, Get and Delete
\* addressing every seed row: the table can be emptied.
NextDrain ==
  \/ Startup
  \/ Requests(AllPathIds, PathIds, inflight = EmptyBag)
  \/ Completions

SpecDrain == Init /\ [][NextDrain]_vars

\* One run of the process under any of the settings documents, requests one
\* at a time: Creates with the title-only bodies, Gets, Deletes of every
\* row, Health and OPTIONS.
NextWide ==
  \/ \E doc \in WideConfigDocs, ok \in BOOLEAN : LoadConfig(doc, ok)
  \/ \E fault \in InitFaults, now \in Times : InitDatabase(fault, now)
  \/ \E body \in CreateBodies, fault \in BOOLEAN, now \in Times :
        inflight = EmptyBag /\ createTaskInsert(body, fault, now)
  \/ \E id \in PathIds, fault \in BOOLEAN :
        inflight = EmptyBag /\ getTask(id, fault)
  \/ \E id \in AllPathIds, fault \in BOOLEAN :
        inflight = EmptyBag /\ deleteTask(id, fault)
  \/ inflight = EmptyBag /\ healthCheck
  \/ inflight = EmptyBag /\ corsMiddleware
  \/ \E h \in BagToSet(inflight), fault \in BOOLEAN : createTaskSelect(h, fault)

SpecWide == Init /\ [][NextWide]_vars

\* One run of the process, requests one at a time: Creates, Updates with
\* bodies that leave fields out, Gets and Deletes.
NextSparse ==
  \/ Startup
  \/ \E body \in CreateBodies, fault \in BOOLEAN, now \in Times :
        inflight = EmptyBag /\ createTaskInsert(body, fault, now)
  \/ \E id \in PathIds, body \in SparseUpdateBodies, fault \in BOOLEAN :
        inflight = EmptyBag /\ updateTaskExec(id, body, fault)
  \/ \E id \in PathIds, fault \in BOOLEAN :
        inflight = EmptyBag /\ getTask(id, fault)
  \/ \E id \in PathIds, fault \in BOOLEAN :
        inflight = EmptyBag /\ deleteTask(id, fault)
  \/ Completions

SpecSparse == Init /\ [][NextSparse]_vars

\* The same run, with the Go scheduler and database/sql letting every handler
\* reach its second statement: the call returns and the goroutine goes on.
SpecLive == Init /\ [][NextSparse]_vars /\ WF_vars(Completions)

(* ---------------- properties ---------------- *)

Range(f) == {f[i] : i \in DOMAIN f}

\* The handlers that have started in this step.
NewHandlers(hpc) ==
  {h \in BagToSet(inflight') : h.pc = hpc /\ CopiesIn(h, inflight') > CopiesIn(h, inflight)}

\* This step has written the answer (op, status).
Answers(op, status) ==
  /\ lastResp' # lastResp
  /\ lastResp'.op = op
  /\ lastResp'.status = status

\* C1: every id the table assigns is greater than every id it assigned before
\* (seed rows and deleted rows included), the INSERT of a Create is given such
\* an id, and the 201 of that Create returns it; so no id is returned twice.
C1_Step ==
  /\ \A k \in (Len(issued) + 1)..Len(issued') :
       \A j \in 1..(k - 1) : issued'[j] < issued'[k]
  /\ \A h \in NewHandlers("create_select") :
       /\ Len(issued') = Len(issued) + 1
       /\ h.task.id = issued'[Len(issued')]
       /\ h.task.id \notin DOMAIN table
       /\ h.task.id \in DOMAIN table'
  /\ Answers("create", 201) =>
       /\ \E h \in At("create_select") :
            inflight' = Finished(h) /\ lastResp'.body.task.id = h.task.id
       /\ lastResp'.body.task.id \in Range(issued)
       /\ lastResp'.body.task.id \notin DOMAIN created

C1_CreateIdsStrictlyIncrease == [][C1_Step]_vars

\* A Create has answered 201 with an id after a Delete removed a row.
C1_Witness ==
  /\ lastResp.op = "create"
  /\ lastResp.status = 201
  /\ deleted # {}
  /\ lastResp.body.task.id \notin deleted
  /\ \A id \in deleted : id < lastResp.body.task.id

\* C2: once a Delete of id has answered 200, a Get, a Delete or an Update
\* (with a body that parses) of id whose statement the engine runs answers 404.
C2_Step ==
  \A id \in PathIds :
    id \in deleted =>
      /\ getTask(id, FALSE) => lastResp'.status = 404
      /\ deleteTask(id, FALSE) => lastResp'.status = 404
      /\ \A body \in UpdateBodies :
           (BindOk(body) /\ updateTaskExec(id, body, FALSE)) =>
             (lastResp'.status = 404 /\ inflight' = inflight /\ table' = table)

C2_DeletedStaysDeleted == [][C2_Step]_vars

\* A Get of a deleted id has answered 404 after a Create was given a new id.
C2_Witness ==
  /\ lastResp.op = "get"
  /\ lastResp.status = 404
  /\ lastResp.id \in deleted
  /\ \E id \in DOMAIN created : id > lastResp.id /\ id \in DOMAIN table

\* The rows of the table that hold seed row k.
SeedCopies(k) ==
  {i \in DOMAIN table :
     /\ table[i].title = SeedRows[k].title
     /\ table[i].description = SeedRows[k].description
     /\ table[i].status = SeedRows[k].status}

\* C3: however often initDatabase has run on the database, no seed row is in
\* the table more than once, and each is there once when the first run has
\* just finished.
C3_SeedRowsOnce ==
  mainpc = "serving" =>
    \A k \in DOMAIN SeedRows :
      /\ Cardinality(SeedCopies(k)) <= 1
      /\ (boots = 1 /\ lastResp = NoResp /\ inflight = EmptyBag) =>
           Cardinality(SeedCopies(k)) = 1

\* C4: a Get that follows the 201 of a Create, for the id it returned,
\* answers 200 with the same task in every field.
C4_Step ==
  \A id \in PathIds :
    ( /\ lastResp.op = "create"
      /\ lastResp.status = 201
      /\ lastResp.body.task.id = id
      /\ getTask(id, FALSE) )
    => (lastResp'.status = 200 /\ lastResp'.body = lastResp.body)

C4_GetAfterCreate == [][C4_Step]_vars

\* A Get has answered 200 with a task created from a body without status,
\* description and title.
C4_Witness ==
  /\ lastResp.op = "get"
  /\ lastResp.status = 200
  /\ lastResp.id \in DOMAIN created
  /\ lastResp.body.task.created_at = created[lastResp.id]
  /\ lastResp.body.task.title = ""
  /\ lastResp.body.task.status = "pending"

\* C5: a Get that follows the 200 of an Update of the same id answers 200
\* with the title, description and status of the Update's body, the path id,
\* and the created_at the Create of that id returned.
C5_Step ==
  \A id \in PathIds :
    ( /\ lastResp.op = "update"
      /\ lastResp.status = 200
      /\ lastResp.id = id
      /\ getTask(id, FALSE) )
    => /\ lastResp'.status = 200
       /\ lastResp'.body.task.id = id
       /\ lastResp'.body.task.title = ShouldBindJSON(lastResp.req).title
       /\ lastResp'.body.task.description = ShouldBindJSON(lastResp.req).description
       /\ lastResp'.body.task.status = ShouldBindJSON(lastResp.req).status
       /\ id \in DOMAIN created => lastResp'.body.task.created_at = created[id]

C5_GetAfterUpdate == [][C5_Step]_vars

\* A Get has answered 200 with a created task as an Update rewrote it, a
\* second after its creation.
C5_Witness ==
  /\ lastResp.op = "get"
  /\ lastResp.status = 200
  /\ lastResp.id \in DOMAIN created
  /\ lastResp.body.task.title = BodyForged.title
  /\ lastResp.body.task.status = ""
  /\ lastResp.body.task.created_at = ScanCreatedAt(1)

\* C6: the 200 of an Update carries the title, description and status of its
\* own body and the path id.
C6_UpdateAnswersItsBody ==
  (lastResp.op = "update" /\ lastResp.status = 200) =>
    /\ lastResp.body.task.id = lastResp.id
    /\ lastResp.body.task.title = ShouldBindJSON(lastResp.req).title
    /\ lastResp.body.task.description = ShouldBindJSON(lastResp.req).description
    /\ lastResp.body.task.status = ShouldBindJSON(lastResp.req).status

\* C7: a handler answers 500 only when the storage engine has failed one of
\* its statements.
C7_No500WithoutFault == lastResp.status = 500 => lastResp.fault

\* C8: the 200 of a List that the engine served without a fault carries a
\* JSON array, also when the table is empty.
C8_ListIsArray ==
  (lastResp.op = "list" /\ lastResp.status = 200 /\ ~lastResp.fault) =>
    lastResp.body.kind = "array"

\* The tasks a client reads from the body of a List (null reads as no tasks).
Items(body) == IF body.kind = "array" THEN body.items ELSE <<>>

\* C9: a List that is answered 200 carries the rows of the table, each once,
\* in strictly descending order of id.
C9_Step ==
  ( /\ lastResp' # lastResp
    /\ lastResp'.op = "list"
    /\ lastResp'.status = 200 ) =>
    LET items == Items(lastResp'.body) IN
    /\ Len(items) = Cardinality(DOMAIN table)
    /\ {items[i].id : i \in DOMAIN items} = DOMAIN table
    /\ \A i \in DOMAIN items : items[i] = ScanTask(table, items[i].id)
    /\ \A i, j \in DOMAIN items : i < j => items[i].id > items[j].id

C9_ListDescending == [][C9_Step]_vars

\* The status a Create is to store and return for a body.
ExpectedStatus(body) ==
  IF "status" \notin body.has \/ body.status = "" THEN "pending" ELSE body.status

\* C10: the INSERT of a Create stores "pending" for a body without status or
\* with the empty status and the body's status otherwise, and the 201 returns
\* the same.
C10_Step ==
  /\ \A h \in NewHandlers("create_select") :
       table'[h.task.id].status = ExpectedStatus(h.req)
  /\ Answers("create", 201) =>
       lastResp'.body.task.status = ExpectedStatus(lastResp'.req)

C10_CreateStatusDefault == [][C10_Step]_vars

\* A Create has answered 201 with "pending" for a body that gives the empty
\* status, and the row holds it.
C10_Witness ==
  /\ lastResp.op = "create"
  /\ lastResp.status = 201
  /\ "status" \in lastResp.req.has
  /\ lastResp.req.status = ""
  /\ lastResp.body.task.status = "pending"
  /\ lastResp.body.task.id \in DOMAIN table
  /\ table[lastResp.body.task.id].status = "pending"

\* C11: on a database initDatabase has just set up, the first Create, with
\* the body {"title":"Write spec"}, answers 201 with the id that follows the
\* seed rows' ids (4), the title, an empty description and status "pending".
C11_FirstCreateAfterSeeds ==
  ( /\ lastResp.op = "create"
    /\ lastResp.status = 201
    /\ lastResp.req = BodyTitle
    /\ boots = 1
    /\ Len(issued) <= Len(SeedRows) + 1 )
  => /\ lastResp.body.task.id = Len(SeedRows) + 1
     /\ lastResp.body.task.title = "Write spec"
     /\ lastResp.body.task.description = ""
     /\ lastResp.body.task.status = "pending"

\* C11 as stated: that first Create answers with id 1.
C11_FirstCreateIdOne ==
  ( /\ lastResp.op = "create"
    /\ lastResp.status = 201
    /\ lastResp.req = BodyTitle
    /\ boots = 1
    /\ Len(issued) <= Len(SeedRows) + 1 )
  => /\ lastResp.body.task.id = 1
     /\ lastResp.body.task.description = ""
     /\ lastResp.body.task.status = "pending"

\* The first Create of the database, title only, has answered 201 and its
\* row is in the table behind the three seed rows.
C11_Witness ==
  /\ lastResp.op = "create"
  /\ lastResp.status = 201
  /\ lastResp.req = BodyTitle
  /\ issued = << 1, 2, 3, 4 >>
  /\ DOMAIN table = {1, 2, 3, 4}
  /\ table[4].title = "Write spec"

\* C12: a Get of an id the table has never assigned, whose SELECT the engine
\* runs, answers 404 with the message "Task not found".
C12_UnassignedGetNotFound ==
  ( /\ lastResp.op = "get"
    /\ ~lastResp.fault
    /\ lastResp.id \notin Range(issued) )
  => /\ lastResp.status = 404
     /\ lastResp.body = ErrorJSON("Task not found")

\* C12 as stated: a Get of a never assigned id answers 404 in every case,
\* also when the engine fails the SELECT.
C12_Step ==
  \A id \in PathIds, fault \in BOOLEAN :
    (id \notin Range(issued) /\ getTask(id, fault)) => lastResp'.status = 404

C12_UnassignedGetNever500 == [][C12_Step]_vars

\* A Get of the never assigned id 4 has answered 404 while an Update is
\* between its statements.
C12_Witness ==
  /\ lastResp.op = "get"
  /\ lastResp.status = 404
  /\ lastResp.id = 4
  /\ 4 \notin Range(issued)
  /\ At("update_select") # {}

\* C13: a Delete, or an Update with a body that parses, of an id that has no
\* row answers 404 "Task not found" when the engine runs its statement, and
\* in every case (also a 400 or a 500) the table stays as it is and no
\* follow-up SELECT is begun.
C13_Step ==
  /\ \A id \in AllPathIds :
       id \notin DOMAIN table =>
         /\ deleteTask(id, FALSE) =>
              /\ lastResp'.status = 404
              /\ lastResp'.body = ErrorJSON("Task not found")
         /\ \A fault \in BOOLEAN : deleteTask(id, fault) => table' = table
  /\ \A id \in PathIds :
       id \notin DOMAIN table =>
         \A body \in UpdateBodies :
           /\ (body.wellformed /\ updateTaskExec(id, body, FALSE)) =>
                /\ lastResp'.status = 404
                /\ lastResp'.body = ErrorJSON("Task not found")
           /\ \A fault \in BOOLEAN :
                updateTaskExec(id, body, fault) =>
                  (table' = table /\ inflight' = inflight)

C13_MissingRowUntouched == [][C13_Step]_vars

\* A Delete of a row deleted before has answered 404 and the remaining rows
\* are in the table.
C13_Witness ==
  /\ lastResp.op = "delete"
  /\ lastResp.status = 404
  /\ lastResp.id \in deleted
  /\ DOMAIN table = {2, 3}
  /\ \A i \in {2, 3} : table[i].title = SeedRows[i].title

\* C14: a Create or an Update with a body that does not parse answers 400
\* with the parse error, whether or not the path id of the Update has a row
\* and whatever the engine would do; the table and its id sequence stay as
\* they are and no statement is begun.
C14_Step ==
  /\ \A fault \in BOOLEAN, now \in Times :
       createTaskInsert(BodyMalformed, fault, now) =>
         /\ lastResp'.status = 400
         /\ lastResp'.body = ErrorJSON(ParseError)
         /\ table' = table /\ seq' = seq /\ inflight' = inflight
  /\ \A id \in PathIds, fault \in BOOLEAN :
       updateTaskExec(id, BodyMalformed, fault) =>
         /\ lastResp'.status = 400
         /\ lastResp'.body = ErrorJSON(ParseError)
         /\ table' = table /\ seq' = seq /\ inflight' = inflight

C14_MalformedBodyIs400 == [][C14_Step]_vars

\* An Update with an unparseable body of an id without a row has answered 400.
C14_Witness ==
  /\ lastResp.op = "update"
  /\ lastResp.status = 400
  /\ lastResp.req = BodyMalformed
  /\ lastResp.id \notin DOMAIN table
  /\ DOMAIN table # {}

\* C15: a Create with a body that parses and has no title, or the empty
\* title, whose statements the engine runs, answers 201 with title "" and its
\* row holds the title "".
C15_TitlelessCreateAccepted ==
  ( /\ lastResp.op = "create"
    /\ ~lastResp.fault
    /\ lastResp.req.wellformed
    /\ ("title" \notin lastResp.req.has \/ lastResp.req.title = "") )
  => /\ lastResp.status = 201
     /\ lastResp.body.task.title = ""
     /\ lastResp.body.task.id \in DOMAIN table
     /\ table[lastResp.body.task.id].title = ""

\* A Create with the body {"title":""} has answered 201 and its row is stored.
C15_Witness ==
  /\ lastResp.op = "create"
  /\ lastResp.status = 201
  /\ lastResp.req = BodyBlankTitle
  /\ lastResp.body.task.id = 4
  /\ table[4].title = ""
  /\ table[4].status = "pending"

\* C16: an OPTIONS request is answered 204 with an empty body and
\* Access-Control-Allow-Origin "*", whatever origins are configured; no
\* handler statement is begun and the table stays as it is.
C16_Step ==
  corsMiddleware =>
    /\ lastResp'.status = 204
    /\ lastResp'.body = EmptyBody
    /\ lastResp'.allow_origin = "*"
    /\ table' = table /\ seq' = seq
    /\ inflight' = inflight

C16_OptionsShortCircuits == [][C16_Step]_vars

\* An OPTIONS request has been answered under a configuration that lists two
\* origins, neither of them "*", with a created row in the table.
C16_Witness ==
  /\ lastResp.op = "options"
  /\ lastResp.status = 204
  /\ lastResp.allow_origin = "*"
  /\ Len(config.cors_origins) = 2
  /\ "*" \notin Range(config.cors_origins)
  /\ 4 \in DOMAIN table

\* C17: a Health request is answered only by a serving process, with 200,
\* status "healthy" and the version of the settings document loaded at start.
C17_HealthReportsVersion ==
  lastResp.op = "health" =>
    /\ mainpc = "serving"
    /\ lastResp.status = 200
    /\ lastResp.body.kind = "health"
    /\ lastResp.body.status = "healthy"
    /\ lastResp.body.version = config.version
    /\ \E doc \in WideConfigDocs : doc.version = lastResp.body.version

\* A Health request has been answered with version 2.3.1 on an emptied table.
C17_Witness ==
  /\ lastResp.op = "health"
  /\ lastResp.status = 200
  /\ lastResp.body.version = "2.3.1"
  /\ table = << >>
  /\ deleted = {1, 2, 3}

\* C18: the timestamp of a Health response is a time, not the text Sprintf
\* writes for a value that is absent.
C18_HealthTimestampIsTime ==
  lastResp.op = "health" => lastResp.body.timestamp # "%!d(<nil>)"

\* C19: no step changes the created_at of a row that stays in the table, and
\* a row that enters the table does so under an id never assigned before,
\* with the CURRENT_TIMESTAMP of its INSERT; so every row holds the id and
\* created_at of its insertion for as long as it exists.
C19_Step ==
  /\ \A id \in DOMAIN table \cap DOMAIN table' :
       table'[id].created_at = table[id].created_at
  /\ \A id \in DOMAIN table' \ DOMAIN table :
       /\ id \notin Range(issued)
       /\ id \in Range(issued')
       /\ table'[id].created_at = clock'

C19_IdAndCreatedAtFixed == [][C19_Step]_vars

\* A row created a second after the seed rows has been rewritten by an
\* Update whose body names another id and created_at, and still holds its own.
C19_Witness ==
  /\ DOMAIN table = {1, 2, 3, 4}
  /\ table[1].created_at = 0
  /\ table[4].created_at = 1
  /\ table[4].title = BodyForged.title
  /\ 4 \in DOMAIN created
  /\ created[4] = ScanCreatedAt(1)
  /\ lastResp.op = "update"
  /\ lastResp.status = 200
  /\ lastResp.id = 4

\* The mutable fields of a row or Task.
Triple(r) == << r.title, r.description, r.status >>

\* C20: the UPDATE of an Update request writes the whole (title, description,
\* status) of its own body in one step, and nothing but such an UPDATE changes
\* those fields of a row.  No Update is turned away for a conflict: one is
\* answered 400 only for a body that does not parse, 404 only when the row is
\* not there, 500 only when the engine failed a statement or the row is gone
\* at its SELECT, and 200 otherwise.  So after two concurrent Updates the row
\* holds the triple of the later UPDATE.
C20_Step ==
  /\ inflight' # inflight =>
       \A h \in NewHandlers("update_select") :
         Triple(table'[h.id]) = Triple(ShouldBindJSON(h.req))
  /\ table' # table =>
       \A id \in DOMAIN table \cap DOMAIN table' :
         Triple(table'[id]) # Triple(table[id]) =>
           \E h \in NewHandlers("update_select") : h.id = id
  /\ (lastResp'.op = "update" /\ lastResp' # lastResp) =>
       /\ lastResp'.status \in {200, 400, 404, 500}
       /\ lastResp'.status = 400 => ~lastResp'.req.wellformed
       /\ lastResp'.status = 404 => lastResp'.id \notin DOMAIN table
       /\ lastResp'.status = 500 =>
            (lastResp'.fault \/ lastResp'.id \notin DOMAIN table)

C20_LastUpdateWins == [][C20_Step]_vars

\* Two Updates of row 1 have run concurrently and both have finished: the
\* one answered last ran its UPDATE first, and the row, like its response,
\* holds the whole triple of the other.
C20_Witness ==
  /\ lastResp.op = "update"
  /\ lastResp.status = 200
  /\ lastResp.id = 1
  /\ lastResp.req = BodyForged
  /\ inflight = EmptyBag
  /\ Triple(table[1]) = Triple(ShouldBindJSON(BodyFull))
  /\ Triple(lastResp.body.task) = Triple(table[1])

\* The text of field key an Update body supplies: its value, or the empty
\* string when the key is absent.
Supplied(body, key) == IF key \in body.has THEN body[key] ELSE ""

\* C21: after the 200 of an Update, before the next request, the row holds,
\* and the response shows,
\* the status of the body as it is, the empty string for an empty or absent
\* status (not "pending", not the status before), and likewise the empty
\* string for an absent title or description.
C21_UpdateNoDefaulting ==
  (lastResp.op = "update" /\ lastResp.status = 200 /\ inflight = EmptyBag) =>
    /\ lastResp.id \in DOMAIN table
    /\ table[lastResp.id].status = Supplied(lastResp.req, "status")
    /\ table[lastResp.id].title = Supplied(lastResp.req, "title")
    /\ table[lastResp.id].description = Supplied(lastResp.req, "description")
    /\ Triple(lastResp.body.task) = Triple(table[lastResp.id])

\* An Update of seed row 1 with the body {} has answered 200: the row that
\* held a title, a description and status "completed" holds three empty strings.
C21_Witness ==
  /\ lastResp.op = "update"
  /\ lastResp.status = 200
  /\ lastResp.id = 1
  /\ lastResp.req = BodyEmpty
  /\ SeedRows[1].status = "completed"
  /\ Triple(table[1]) = << "", "", "" >>

\* C22: a request runs its first statement once and then either has its
\* answer (an error: nothing more is begun) or is in flight; a request in
\* flight runs its second statement once, writes its one answer, whether
\* that statement failed or not, and is done, writing nothing to the table.
C22_Step ==
  /\ inflight' # inflight =>
       \/ /\ lastResp' = lastResp
          /\ \E h \in NewHandlers("create_select") \cup NewHandlers("update_select") :
               inflight' = Started(h)
       \/ /\ table' = table
          /\ \E h \in BagToSet(inflight) :
               /\ inflight' = Finished(h)
               /\ lastResp'.status # 0
               /\ lastResp'.op = IF h.pc = "create_select" THEN "create" ELSE "update"
  /\ lastResp'.fault =>
       /\ \A h \in BagToSet(inflight) :
            (createTaskSelect(h, TRUE) \/ updateTaskSelect(h, TRUE)) =>
              inflight' = Finished(h)
       /\ \A body \in CreateBodies, now \in Times :
            (body.wellformed /\ createTaskInsert(body, TRUE, now)) =>
              (table' = table /\ inflight' = inflight)
       /\ \A id \in PathIds, body \in SparseUpdateBodies :
            (body.wellformed /\ updateTaskExec(id, body, TRUE)) =>
              (table' = table /\ inflight' = inflight)

\* ... and every request in flight gets its answer.
C22_EveryRequestAnswered ==
  /\ [][C22_Step]_vars
  /\ (inflight # EmptyBag) ~> (inflight = EmptyBag)

\* The INSERT of a Create ran and its SELECT failed: the Create has answered
\* 500 and is done, and the row it inserted is in the table.
C22_Witness ==
  /\ lastResp.op = "create"
  /\ lastResp.status = 500
  /\ lastResp.fault
  /\ inflight = EmptyBag
  /\ 4 \in DOMAIN table
  /\ 4 \notin DOMAIN created

\* C23, in every state: a serving process has loaded a settings document and
\* has created the table and run the seed insert; only a serving process has
\* taken a request; a process that has exited has answered none.
C23_Inv ==
  /\ mainpc = "serving" =>
       /\ config \in WideConfigDocs
       /\ tableExists
       /\ Len(issued) >= Len(SeedRows)
  /\ (lastResp # NoResp \/ inflight # EmptyBag) => mainpc = "serving"
  /\ mainpc = "exited" => (lastResp = NoResp /\ inflight = EmptyBag)

\* C23, in every step: main() goes from start to loaded to serving and no
\* other way; a failed loadConfig or initDatabase makes it exit; once exited
\* it does nothing more (no retry, no serving).
C23_Step ==
  /\ mainpc # "exited"
  /\ mainpc = "serving" => mainpc' = "serving"
  /\ mainpc' # mainpc =>
       /\ mainpc' = "loaded" => mainpc = "start"
       /\ mainpc' = "serving" => mainpc = "loaded"
       /\ \A doc \in WideConfigDocs : LoadConfig(doc, FALSE) => mainpc' = "exited"
       /\ \A fault \in InitFaults \ {"none"}, now \in Times :
            InitDatabase(fault, now) => mainpc' = "exited"

C23_ServesOnlyAfterStartup == []C23_Inv /\ [][C23_Step]_vars

\* initDatabase has created the table and failed at the seed insert: the
\* process has exited and has served nothing.
C23_Witness ==
  /\ mainpc = "exited"
  /\ config \in WideConfigDocs
  /\ tableExists
  /\ table = << >>
  /\ lastResp = NoResp

\* C24: a List that follows the 201 of a Create with no request in between,
\* and that the engine serves without a fault, answers 200 with an array whose
\* first element is the task of that 201.
C24_Step ==
  ( /\ lastResp.op = "create"
    /\ lastResp.status = 201
    /\ lastResp'.op = "list"
    /\ ~lastResp'.fault )
  => /\ lastResp'.status = 200
     /\ lastResp'.body.kind = "array"
     /\ lastResp'.body.items[1] = lastResp.body.task

C24_ListHeadIsCreated == [][C24_Step]_vars

\* A List has answered with the task just created at its head and the three
\* seed rows behind it.
C24_Witness ==
  /\ lastResp.op = "list"
  /\ lastResp.status = 200
  /\ lastResp.body.kind = "array"
  /\ Len(lastResp.body.items) = 4
  /\ lastResp.body.items[1].id = 4
  /\ lastResp.body.items[1].title = BodyFull.title
  /\ 4 \in DOMAIN created
  /\ lastResp.body.items[1].created_at = created[4]
  /\ lastResp.body.items[4].id = 1

\* C25: the UPDATE of an Update of id leaves the set of rows as it is and
\* every row but id untouched; a Delete answered 200 removes the row of its
\* id, one row, and leaves every other row untouched.
C25_Step ==
  /\ inflight' # inflight =>
       \A h \in NewHandlers("update_select") :
         /\ DOMAIN table' = DOMAIN table
         /\ \A i \in DOMAIN table \ {h.id} : table'[i] = table[i]
  /\ deleted' # deleted =>
       \E id \in DOMAIN table :
         /\ deleted' = deleted \cup {id}
         /\ lastResp'.op = "delete" /\ lastResp'.status = 200 /\ lastResp'.id = id
         /\ DOMAIN table' = DOMAIN table \ {id}
         /\ Cardinality(DOMAIN table') = Cardinality(DOMAIN table) - 1
         /\ \A i \in DOMAIN table' : table'[i] = table[i]

C25_OnlyRowXChanges == [][C25_Step]_vars

\* Row 3 has been deleted and row 1 updated: row 2 is the seed row it was.
C25_Witness ==
  /\ deleted = {3}
  /\ DOMAIN table = {1, 2}
  /\ lastResp.op = "update"
  /\ lastResp.status = 200
  /\ table[1].title = BodyFull.title
  /\ Triple(table[2]) = Triple(SeedRows[2])

\* C26: a step in which a List, a Get, a Health or an OPTIONS request is
\* answered, with whatever status, leaves the table, its id sequence and the
\* statements in flight as they are.
C26_Step ==
  ( /\ lastResp' # lastResp
    /\ lastResp'.op \in {"list", "get", "health", "options"} )
  => /\ table' = table
     /\ seq' = seq
     /\ tableExists' = tableExists
     /\ inflight' = inflight

C26_ReadsDoNotWrite == [][C26_Step]_vars

\* A List has failed in the engine on a table that holds a created row and
\* has lost a seed row.
C26_Witness ==
  /\ lastResp.op = "list"
  /\ lastResp.status = 500
  /\ lastResp.fault
  /\ DOMAIN table = {2, 3, 4}
  /\ table[4].title = BodyForged.title

\* C27: whatever id and created_at a body carries, the INSERT of a Create
\* adds one row under the next id of the table with the engine's time and
\* touches no other row, and its 201 returns that id and that row's
\* created_at; the UPDATE of an Update writes the row of the path id, keeps
\* that row's created_at and touches no other row, and its 200 returns the
\* path id and that row's created_at.
C27_Step ==
  /\ inflight' # inflight =>
       /\ \A h \in NewHandlers("create_select") :
            /\ h.task.id = NextId(table, seq)
            /\ DOMAIN table' = DOMAIN table \cup {h.task.id}
            /\ table'[h.task.id].created_at = clock'
            /\ \A i \in DOMAIN table : table'[i] = table[i]
       /\ \A h \in NewHandlers("update_select") :
            /\ \A id \in PathIds : updateTaskExec(id, h.req, FALSE) => h.id = id
            /\ table'[h.id].created_at = table[h.id].created_at
            /\ \A i \in DOMAIN table \ {h.id} : table'[i] = table[i]
  /\ Answers("create", 201) =>
       /\ lastResp'.body.task.id = seq
       /\ lastResp'.body.task.created_at =
            ScanCreatedAt(table[lastResp'.body.task.id].created_at)
  /\ Answers("update", 200) =>
       /\ lastResp'.body.task.id = lastResp'.id
       /\ \E h \in At("update_select") : inflight' = Finished(h) /\ h.id = lastResp'.id
       /\ lastResp'.body.task.created_at =
            ScanCreatedAt(table[lastResp'.id].created_at)

C27_BodyIdAndTimeIgnored == [][C27_Step]_vars

\* An Update of row 4 with a body that names id 1 and its own created_at has
\* answered 200 with id 4 and the row's time; row 1 is the seed row it was.
C27_Witness ==
  /\ lastResp.op = "update"
  /\ lastResp.status = 200
  /\ lastResp.id = 4
  /\ lastResp.req = BodyForged
  /\ lastResp.body.task.id = 4
  /\ lastResp.body.task.created_at = ScanCreatedAt(table[4].created_at)
  /\ table[4].title = BodyForged.title
  /\ Triple(table[1]) = Triple(SeedRows[1])

\* C28: every row of the table holds a text (possibly empty, never NULL) as
\* title, description and status and a time of the engine's clock as
\* created_at, so the scan of the row into a Task has a value for each field.
C28_NoNullColumns ==
  \A id \in DOMAIN table :
    /\ table[id].title # Null
    /\ table[id].description # Null
    /\ table[id].status # Null
    /\ table[id].created_at \in Times
    /\ ScanTask(table, id).created_at.layout = "RFC3339Nano"

\* The table holds the seed rows and a created row that an Update without
\* description and with the empty status has rewritten; a List has scanned
\* all four.
C28_Witness ==
  /\ DOMAIN table = {1, 2, 3, 4}
  /\ table[4].description = ""
  /\ table[4].title = BodyForged.title
  /\ table[4].status = ""
  /\ table[1].description = BodyFull.description
  /\ lastResp.op = "list"
  /\ lastResp.status = 200
  /\ lastResp.body.kind = "array"
  /\ Len(lastResp.body.items) = 4

====
